---- MODULE Spec2Model ----
(***************************************************************************)
(* Model of the tweet-count forecasting core of polymarket_algo:           *)
(*   - TweetDataLoader.load_data          (data_loader.py)                 *)
(*   - parse_timestamp                    (polymarket_predictor)           *)
(*   - TweetPatternAnalyzer.analyze_patterns                               *)
(*   - calculate_trend_factor, validate_hours                              *)
(*   - TweetPredictor.predict_remaining_hours, predict_daily               *)
(* Real-valued quantities (rates, portions, factors) are exact rationals   *)
(* [n, d] kept in lowest terms; IEEE rounding of the Python floats is not  *)
(* modelled.  Dates are proleptic Gregorian ordinals as in                 *)
(* datetime.date.toordinal().                                              *)
(***************************************************************************)
EXTENDS Integers, Sequences, FiniteSets, TLC

VARIABLES
    pc,             \* position of the driver: which call has been made
    csv,            \* the raw CSV file: sequence of data rows (after the header)
    loader,         \* TweetDataLoader: [df, last_date, last_time] and load_data's return
    timestamp_str,  \* argument of parse_timestamp / element of the created_at column
    parsed,         \* value returned by parse_timestamp
    coerced,        \* value produced by pd.to_datetime(format=..., errors='coerce')
    analyzer,       \* TweetPatternAnalyzer: df and the analyzed patterns
    request,        \* arguments of predict_count
    prediction,     \* value returned by predict_count
    market,         \* what predict_tweet_frame_probabilities finds: path and count
    draws,          \* the samples np.random.normal returned
    simulations,    \* the samples after np.maximum(simulations, tweet_count)
    frame_probabilities,  \* value returned by predict_tweet_frame_probabilities
    backtest,       \* arguments and environment of evaluate_precision
    metrics,        \* value returned by evaluate_precision
    scraper,        \* TestTweetScraper: seen_tweets
    new_tweets,     \* value returned by the latest process_tweets
    appended,       \* the lines append_tweets has written, oldest first
    checks          \* passes of the scheduler loop so far

vars == <<pc, csv, loader, timestamp_str, parsed, coerced, analyzer, request, prediction,
          market, draws, simulations, frame_probabilities, backtest, metrics,
          scraper, new_tweets, appended, checks>>

marketVars == <<market, draws, simulations, frame_probabilities>>

backtestVars == <<backtest, metrics>>

collectorVars == <<scraper, new_tweets, appended, checks>>

(***************************************************************************)
(* Python's None / pandas' NaT / NaN, as tagged records so that they can   *)
(* be compared with any other value of the model.                          *)
(***************************************************************************)
None == [tag |-> "None"]
NaT == [tag |-> "NaT"]
NaN == [tag |-> "NaN"]

----------------------------------------------------------------------------
(* Exact rational arithmetic. *)

RECURSIVE Gcd(_, _)
Gcd(a, b) == IF b = 0 THEN a ELSE Gcd(b, a % b)

Abs(x) == IF x < 0 THEN -x ELSE x

Rat(n, d) ==
    LET g == Gcd(Abs(n), Abs(d))
        s == IF d < 0 THEN -1 ELSE 1
    IN  IF n = 0 THEN [n |-> 0, d |-> 1]
        ELSE [n |-> s * (n \div g), d |-> s * (d \div g)]

RInt(k) == [n |-> k, d |-> 1]

\* operands are in lowest terms with positive denominators; common factors
\* are cancelled before multiplying so that intermediate values stay small
RAdd(x, y) ==
    LET g == Gcd(x.d, y.d)
    IN  Rat(x.n * (y.d \div g) + y.n * (x.d \div g), (x.d \div g) * y.d)

RSub(x, y) == RAdd(x, [n |-> -y.n, d |-> y.d])

RMul(x, y) ==
    LET g1 == Gcd(Abs(x.n), y.d)
        g2 == Gcd(Abs(y.n), x.d)
    IN  IF x.n = 0 \/ y.n = 0 THEN RInt(0)
        ELSE Rat((x.n \div g1) * (y.n \div g2), (x.d \div g2) * (y.d \div g1))

RDiv(x, y) == RMul(x, IF y.n < 0 THEN [n |-> -y.d, d |-> -y.n] ELSE [n |-> y.d, d |-> y.n])

RLeq(x, y) ==
    LET g == Gcd(x.d, y.d)
    IN  x.n * (y.d \div g) <= y.n * (x.d \div g)

RLt(x, y) == ~RLeq(y, x)

REq(x, y) == RLeq(x, y) /\ RLeq(y, x)

\* the sum of a sequence of rationals, taken over its two halves: the
\* addition is exact, so the grouping does not change the sum
RECURSIVE RSumSeq(_)
RSumSeq(s) ==
    IF s = <<>> THEN RInt(0)
    ELSE IF Len(s) = 1 THEN s[1]
    ELSE LET half == Len(s) \div 2
         IN  RAdd(RSumSeq(SubSeq(s, 1, half)), RSumSeq(SubSeq(s, half + 1, Len(s))))

\* the sum of a sequence of integers, taken over its two halves
RECURSIVE SumSeq(_)
SumSeq(s) ==
    IF s = <<>> THEN 0
    ELSE IF Len(s) = 1 THEN s[1]
    ELSE LET half == Len(s) \div 2
         IN  SumSeq(SubSeq(s, 1, half)) + SumSeq(SubSeq(s, half + 1, Len(s)))

\* Series.mean() of an integer column
Mean(s) == Rat(SumSeq(s), Len(s))

Range(f) == {f[x] : x \in DOMAIN f}

Last(s) == s[Len(s)]

\* the elements of a finite set of integers in ascending order
RECURSIVE SortedSeq(_)
SortedSeq(S) ==
    IF S = {} THEN <<>>
    ELSE LET m == CHOOSE x \in S : \A y \in S : x <= y
         IN  <<m>> \o SortedSeq(S \ {m})

SetMax(S) == CHOOSE x \in S : \A y \in S : y <= x
SetMin(S) == CHOOSE x \in S : \A y \in S : x <= y

----------------------------------------------------------------------------
(* Calendar: datetime.date / datetime.datetime of the standard library.    *)

IsLeap(y) == y % 4 = 0 /\ (y % 100 # 0 \/ y % 400 = 0)

DaysInMonth(y, m) ==
    IF m = 2 THEN (IF IsLeap(y) THEN 29 ELSE 28)
    ELSE IF m \in {4, 6, 9, 11} THEN 30 ELSE 31

RECURSIVE DaysBeforeMonth(_, _)
DaysBeforeMonth(y, m) ==
    IF m = 1 THEN 0 ELSE DaysBeforeMonth(y, m - 1) + DaysInMonth(y, m - 1)

DaysBeforeYear(y) ==
    (y - 1) * 365 + ((y - 1) \div 4) - ((y - 1) \div 100) + ((y - 1) \div 400)

\* date(y, m, d).toordinal()
Ymd2Ord(y, m, d) == DaysBeforeYear(y) + DaysBeforeMonth(y, m) + d

\* date.weekday(): Monday = 0 ... Sunday = 6
Weekday(ord) == (ord + 6) % 7

\* datetime(year, month, day, hour, minute, second) raises ValueError unless
ValidDateTime(y, m, d, H, M, S) ==
    /\ y \in 1..9999
    /\ m \in 1..12
    /\ d >= 1 /\ d <= DaysInMonth(y, m)
    /\ H \in 0..23
    /\ M \in 0..59
    /\ S \in 0..59

\* a naive datetime: date ordinal and time of day
DateTime(date, H, M, S) == [date |-> date, hour |-> H, minute |-> M, second |-> S]

SecondsOfDay(dt) == dt.hour * 3600 + dt.minute * 60 + dt.second

\* ordering of naive datetimes
DtLeq(a, b) ==
    a.date < b.date \/ (a.date = b.date /\ SecondsOfDay(a) <= SecondsOfDay(b))

\* naive_dt + timedelta(hours=1)
PlusOneHour(dt) ==
    IF dt.hour = 23 THEN [dt EXCEPT !.date = dt.date + 1, !.hour = 0]
    ELSE [dt EXCEPT !.hour = dt.hour + 1]

----------------------------------------------------------------------------
(* Timestamp strings.  A string is modelled by the list str.split(':')      *)
(* returns for it: a sequence of fields, each a sequence of characters.     *)
(* The alphabet is the decimal digits and one letter; split never leaves a  *)
(* ':' inside a field.                                                      *)

Digits == {"0", "1", "2", "3", "4", "5", "6", "7", "8", "9"}

DigitVal(c) ==
    CASE c = "0" -> 0 [] c = "1" -> 1 [] c = "2" -> 2 [] c = "3" -> 3
      [] c = "4" -> 4 [] c = "5" -> 5 [] c = "6" -> 6 [] c = "7" -> 7
      [] c = "8" -> 8 [] c = "9" -> 9

AllDigits(field) == \A i \in 1..Len(field) : field[i] \in Digits

\* int(s) succeeds (over this alphabet) iff s is a non-empty run of digits
IntParses(field) == Len(field) > 0 /\ AllDigits(field)

RECURSIVE IntOf(_)
IntOf(field) ==
    IF field = <<>> THEN 0
    ELSE 10 * IntOf(SubSeq(field, 1, Len(field) - 1)) + DigitVal(Last(field))

\* re.match(r'^\d{4}:\d{2}:\d{2}:\d{2}:\d{2}:\d{2}$', s)
MatchesTimestampRegex(ts) ==
    /\ Len(ts) = 6
    /\ \A i \in 1..6 : AllDigits(ts[i])
    /\ Len(ts[1]) = 4
    /\ \A i \in 2..6 : Len(ts[i]) = 2

----------------------------------------------------------------------------
(* pytz.timezone('US/Eastern'): the rules in force since 2007.  Daylight    *)
(* time starts on the second Sunday of March at 02:00 local time (02:00 to  *)
(* 02:59:59 do not exist) and ends on the first Sunday of November at 02:00 *)
(* (01:00 to 01:59:59 occur twice).                                         *)

EST == -5
EDT == -4

DstStartDate(y) ==
    CHOOSE o \in Ymd2Ord(y, 3, 8)..Ymd2Ord(y, 3, 14) : Weekday(o) = 6

DstEndDate(y) ==
    CHOOSE o \in Ymd2Ord(y, 11, 1)..Ymd2Ord(y, 11, 7) : Weekday(o) = 6

IsNonExistent(y, dt) == dt.date = DstStartDate(y) /\ dt.hour = 2

IsAmbiguous(y, dt) == dt.date = DstEndDate(y) /\ dt.hour = 1

InDaylightTime(y, dt) ==
    /\ dt.date > DstStartDate(y) \/ (dt.date = DstStartDate(y) /\ dt.hour >= 3)
    /\ dt.date < DstEndDate(y) \/ (dt.date = DstEndDate(y) /\ dt.hour < 1)

Aware(dt, off) == [naive |-> dt, utcoffset |-> off]

Raised(name) == [exc |-> name]

\* ET_TIMEZONE.localize(naive_dt, is_dst): is_dst is "None", "True" or "False"
Localize(y, dt, is_dst) ==
    IF IsAmbiguous(y, dt) THEN
        IF is_dst = "None" THEN Raised("AmbiguousTimeError")
        ELSE Aware(dt, IF is_dst = "True" THEN EDT ELSE EST)
    ELSE IF IsNonExistent(y, dt) THEN
        IF is_dst = "None" THEN Raised("NonExistentTimeError")
        ELSE Aware(dt, IF is_dst = "True" THEN EDT ELSE EST)
    ELSE Aware(dt, IF InDaylightTime(y, dt) THEN EDT ELSE EST)

IsRaised(r) == "exc" \in DOMAIN r

\* the instant of an aware datetime, as a naive datetime in UTC
UtcOf(a) ==
    LET h == a.naive.hour - a.utcoffset
    IN  IF h >= 24 THEN [a.naive EXCEPT !.date = a.naive.date + 1, !.hour = h - 24]
        ELSE [a.naive EXCEPT !.hour = h]

----------------------------------------------------------------------------
(* parse_timestamp (polymarket_predictor/tweet_predictor.py)               *)

\* the repeated hour read as standard time, its second instance
ResolveAmbiguousStd(year, naive_dt) == Localize(year, naive_dt, "False")

\* lines 195-198: the repeated hour, "default to the first (DST) instance"
ResolveAmbiguous(year, naive_dt) == Localize(year, naive_dt, "True")

\* lines 199-202: the missing hour, "adjust forward"
ResolveNonExistent(year, naive_dt) == Localize(year, PlusOneHour(naive_dt), "False")

parse_timestamp(ts) ==
    IF Len(ts) # 6 THEN None
    ELSE IF \E i \in 1..6 : ~IntParses(ts[i]) THEN None      \* int() raises
    ELSE
        LET year == IntOf(ts[1])
            month == IntOf(ts[2])
            day == IntOf(ts[3])
            hour == IntOf(ts[4])
            minute == IntOf(ts[5])
            second == IntOf(ts[6])
        IN  IF ~ValidDateTime(year, month, day, hour, minute, second)
            THEN None                                         \* datetime() raises
            ELSE
                LET naive_dt == DateTime(Ymd2Ord(year, month, day), hour, minute, second)
                    first == Localize(year, naive_dt, "None")
                IN  IF first = Raised("AmbiguousTimeError")
                    THEN ResolveAmbiguous(year, naive_dt)
                    ELSE IF first = Raised("NonExistentTimeError")
                    THEN ResolveNonExistent(year, naive_dt)
                    ELSE first

----------------------------------------------------------------------------
(* pd.to_datetime(col, format='%Y:%m:%d:%H:%M:%S', errors='coerce'),       *)
(* element-wise.  The directives match as in strptime: %Y is exactly four  *)
(* digits, the others one or two digits within their range.                *)

DirectiveMatches(field, lo, hi) ==
    /\ Len(field) \in {1, 2}
    /\ AllDigits(field)
    /\ IntOf(field) >= lo
    /\ IntOf(field) <= hi

to_datetime(ts) ==
    IF Len(ts) # 6 THEN NaT
    ELSE IF ~(Len(ts[1]) = 4 /\ AllDigits(ts[1])) THEN NaT
    ELSE IF ~DirectiveMatches(ts[2], 1, 12) THEN NaT
    ELSE IF ~DirectiveMatches(ts[3], 1, 31) THEN NaT
    ELSE IF ~DirectiveMatches(ts[4], 0, 23) THEN NaT
    ELSE IF ~DirectiveMatches(ts[5], 0, 59) THEN NaT
    ELSE IF ~DirectiveMatches(ts[6], 0, 59) THEN NaT
    ELSE IF ~ValidDateTime(IntOf(ts[1]), IntOf(ts[2]), IntOf(ts[3]),
                           IntOf(ts[4]), IntOf(ts[5]), IntOf(ts[6])) THEN NaT
    ELSE DateTime(Ymd2Ord(IntOf(ts[1]), IntOf(ts[2]), IntOf(ts[3])),
                  IntOf(ts[4]), IntOf(ts[5]), IntOf(ts[6]))

----------------------------------------------------------------------------
(* The CSV file elonmusk_reformatted.csv.  The header line is              *)
(* "id,text,created_at"; a data line is modelled by the fields the CSV     *)
(* tokenizer finds on it.                                                  *)

IdTok(i) == [k |-> "id", v |-> i]
TextTok == [k |-> "text"]
TsTok(ts) == [k |-> "ts", v |-> ts]

\* number of names in the header line "id,text,created_at"
HeaderWidth == 3

\* pd.read_csv(file_path), C tokenizer with on_bad_lines='error': the first
\* data line may be wider than the header (its extra leading fields become
\* the index); every later line wider than the lines before it raises
\* ParserError; narrower lines are padded with NaN.
TableWidth(rows) ==
    IF Len(rows) = 0 \/ Len(rows[1]) < HeaderWidth THEN HeaderWidth ELSE Len(rows[1])

ReadCsvRaises(rows) == \E k \in 2..Len(rows) : Len(rows[k]) > TableWidth(rows)

Padded(row, w) == [j \in 1..w |-> IF j <= Len(row) THEN row[j] ELSE NaN]

\* the DataFrame read_csv returns: one record per data line, "row" being its
\* position in the file
read_csv(rows) ==
    LET w == TableWidth(rows)
        lead == w - HeaderWidth
    IN  [i \in 1..Len(rows) |->
            LET f == Padded(rows[i], w)
            IN  [row |-> i,
                 id |-> f[lead + 1],
                 text |-> f[lead + 2],
                 created_at |-> f[lead + 3]]]

\* element of the created_at column after pd.to_datetime(..., errors='coerce')
CoerceCell(cell) ==
    IF cell = NaN THEN NaT
    ELSE IF cell.k = "ts" THEN to_datetime(cell.v) ELSE NaT

\* df.dropna(subset=['created_at']) after the conversion, with the derived
\* columns date, hour and weekday of lines 35-37
ParsedRows(frame) ==
    LET conv == [i \in 1..Len(frame) |->
                    [row |-> frame[i].row,
                     id |-> frame[i].id,
                     created_at |-> CoerceCell(frame[i].created_at)]]
        Keep(r) == r.created_at # NaT
        kept == SelectSeq(conv, Keep)
    IN  [i \in 1..Len(kept) |->
            [row |-> kept[i].row,
             id |-> kept[i].id,
             created_at |-> kept[i].created_at,
             date |-> kept[i].created_at.date,
             hour |-> kept[i].created_at.hour,
             weekday |-> Weekday(kept[i].created_at.date)]]

\* df.sort_values('created_at'): the default kind is 'quicksort', which
\* numpy documents as not stable, so rows with equal keys come out in any
\* order.  The set of all orders of the rows that are ascending by key.
RECURSIVE SortedOrders(_)
SortedOrders(S) ==
    IF S = {} THEN {<<>>}
    ELSE LET least == {r \in S : \A q \in S : DtLeq(r.created_at, q.created_at)}
         IN  UNION {{<<m>> \o rest : rest \in SortedOrders(S \ {m})} : m \in least}

sort_values(frame) == SortedOrders(Range(frame))

\* datetime.time()
TimeOf(dt) == [hour |-> dt.hour, minute |-> dt.minute, second |-> dt.second]

\* TweetDataLoader after __init__
LoaderInit == [df |-> None, last_date |-> None, last_time |-> None, ret |-> None]

\* TweetDataLoader.load_data, given the order sort_values produced
LoadDataWith(self, rows, sorted) ==
    IF ReadCsvRaises(rows) THEN [self EXCEPT !.ret = FALSE]
    ELSE IF Len(sorted) = 0
         THEN [self EXCEPT !.df = sorted, !.ret = FALSE]   \* NaT.date() raises
         ELSE [df |-> sorted,
               last_date |-> Last(sorted).created_at.date,
               last_time |-> TimeOf(Last(sorted).created_at),
               ret |-> TRUE]

----------------------------------------------------------------------------
(* Inputs of the loader and of the timestamp parser.                       *)

\* at most this many data lines in the file
MaxRows == 3

\* identifiers 1..MaxId
MaxId == 2

Y2025 == <<"2", "0", "2", "5">>

\* "2025:03:10:10:00:00", "2025:3:10:10:0:0" (same instant, not padded),
\* "2025:03:09:14:30:00" and "2025:13:10:10:00:00" (no such month)
RawTimestamps ==
    { <<Y2025, <<"0", "3">>, <<"1", "0">>, <<"1", "0">>, <<"0", "0">>, <<"0", "0">> >>,
      <<Y2025, <<"3">>, <<"1", "0">>, <<"1", "0">>, <<"0">>, <<"0">> >>,
      <<Y2025, <<"0", "3">>, <<"0", "9">>, <<"1", "4">>, <<"3", "0">>, <<"0", "0">> >>,
      <<Y2025, <<"1", "3">>, <<"1", "0">>, <<"1", "0">>, <<"0", "0">>, <<"0", "0">> >> }

\* a line "id,text,created_at"; a line cut before its timestamp; a line
\* whose text holds an unescaped delimiter and so splits in two fields
RowKinds ==
    UNION { { <<IdTok(i), TextTok, TsTok(t)>> : t \in RawTimestamps }
            \cup { <<IdTok(i), TextTok, TextTok, TsTok(t)>> : t \in RawTimestamps }
            \cup { <<IdTok(i), TextTok>> }
            : i \in 1..MaxId }

RawFiles == UNION { [1..n -> RowKinds] : n \in 1..MaxRows }

\* strings handed to parse_timestamp: per field a few spellings, among them
\* the two DST transitions of 2025 (March 9, November 2)
FieldChoices ==
    << {Y2025, <<"2", "0", "2", "x">>},
       {<<"0", "3">>, <<"3">>, <<"1", "1">>, <<"1", "3">>},
       {<<"0", "9">>, <<"9">>, <<"0", "2">>, <<"3", "1">>},
       {<<"0", "1">>, <<"1">>, <<"0", "2">>, <<"0", "3">>, <<"2", "4">>},
       {<<"3", "0">>, <<"5">>},
       {<<"0", "0">>, <<"7">>, <<>>} >>

TimestampStrings ==
    { <<y, m, d, H, M, S>> : y \in FieldChoices[1], m \in FieldChoices[2],
                             d \in FieldChoices[3], H \in FieldChoices[4],
                             M \in FieldChoices[5], S \in FieldChoices[6] }
    \cup { <<Y2025, <<"0", "3">>, <<"0", "9">>, <<"0", "1">>, <<"3", "0">> >>,
           <<Y2025, <<"0", "3">>, <<"0", "9">>, <<"0", "1">>, <<"3", "0">>, <<"0", "0">>, <<"0", "0">> >> }

----------------------------------------------------------------------------
(* TweetPatternAnalyzer (pattern_analyzer.py).  A pandas Series is a       *)
(* function from its index labels to its values; Series.get(key, default)  *)
(* is SeriesGet.                                                           *)

Series(data) == [tag |-> "Series", data |-> data]

SeriesGet(series, key, default) ==
    IF key \in DOMAIN series.data THEN series.data[key] ELSE default

\* TweetPatternAnalyzer(df) after __init__
AnalyzerInit(df) ==
    [df |-> df, daily_counts |-> None, weekday_averages |-> None,
     hourly_rates |-> None, hour_of_day_averages |-> None]

\* df.groupby('date').size().reset_index(name='count'), plus the weekday
\* column of line 31; rows come out ordered by date
DailyCounts(df) ==
    LET dates == SortedSeq({df[k].date : k \in 1..Len(df)})
    IN  [i \in 1..Len(dates) |->
            [date |-> dates[i],
             count |-> Cardinality({k \in 1..Len(df) : df[k].date = dates[i]}),
             weekday |-> Weekday(dates[i])]]

\* the 'count' column of a frame of daily counts
Counts(frame) == [i \in 1..Len(frame) |-> frame[i].count]

\* daily_counts.groupby('weekday')['count'].mean()
WeekdayAverages(daily_counts) ==
    LET present == {daily_counts[i].weekday : i \in 1..Len(daily_counts)}
        OfDay(w) == LET Is(r) == r.weekday = w IN SelectSeq(daily_counts, Is)
    IN  Series([w \in present |-> Mean(Counts(OfDay(w)))])

\* (df['date'].max() - df['date'].min()).days + 1
TotalDays(df) ==
    LET dates == {df[k].date : k \in 1..Len(df)}
    IN  SetMax(dates) - SetMin(dates) + 1

\* df.groupby('hour').size() / total_days
HourlyRates(df) ==
    LET present == {df[k].hour : k \in 1..Len(df)}
    IN  Series([h \in present |->
            Rat(Cardinality({k \in 1..Len(df) : df[k].hour = h}), TotalDays(df))])

\* daily_counts.groupby('weekday').size()
WeekdayCounts(daily_counts) ==
    LET present == {daily_counts[i].weekday : i \in 1..Len(daily_counts)}
    IN  [w \in present |->
            Cardinality({i \in 1..Len(daily_counts) : daily_counts[i].weekday = w})]

\* the divisor of the per-hour rates, used for a joint count
JointDivisorTotalDays(df, daily_counts, w) == TotalDays(df)

\* line 72: weekday_counts[x['weekday']], the number of dates of that weekday
JointDivisor(df, daily_counts, w) == WeekdayCounts(daily_counts)[w]

\* df.groupby(['weekday','hour']).size() with rate = count / weekday_counts
HourOfDayAverages(df, daily_counts) ==
    LET present == {<<df[k].weekday, df[k].hour>> : k \in 1..Len(df)}
    IN  Series([key \in present |->
            Rat(Cardinality({k \in 1..Len(df) :
                                df[k].weekday = key[1] /\ df[k].hour = key[2]}),
                JointDivisor(df, daily_counts, key[1]))])

\* TweetPatternAnalyzer.analyze_patterns()
AnalyzePatterns(self) ==
    LET daily_counts == DailyCounts(self.df)
    IN  [df |-> self.df,
         daily_counts |-> daily_counts,
         weekday_averages |-> WeekdayAverages(daily_counts),
         hourly_rates |-> HourlyRates(self.df),
         hour_of_day_averages |-> HourOfDayAverages(self.df, daily_counts)]

----------------------------------------------------------------------------
(* predictor/utils.py                                                      *)

\* length of the trailing window, daily_counts.iloc[-7:]
TrendWindow == 7

\* the window taken from the head of the daily counts
RecentCountsLeading(counts) ==
    IF Len(counts) >= TrendWindow THEN SubSeq(counts, 1, TrendWindow) ELSE counts

\* line 18: iloc[-7:] if len(daily_counts) >= 7, else all the daily counts
RecentCounts(counts) ==
    IF Len(counts) >= TrendWindow
    THEN SubSeq(counts, Len(counts) - TrendWindow + 1, Len(counts))
    ELSE counts

calculate_trend_factor(a, use_trend) ==
    IF ~use_trend THEN RInt(1)
    ELSE
        LET counts == Counts(a.daily_counts)
            recent_avg == Mean(RecentCounts(counts))
            overall_avg == Mean(counts)
        IN  IF RLeq(overall_avg, RInt(0)) THEN RInt(1)
            ELSE RDiv(recent_avg, overall_avg)

\* a Python list of integers
List(items) == [tag |-> "list", items |-> items]

\* entries of a caller's hours list: Python values with their type
IntEntry(v) == [type |-> "int", v |-> v]

FloatEntry(v) == [type |-> "float", v |-> v]

\* every integer taken for an hour
ValidHourAnyInt(e) == e.type = "int"

\* line 41: isinstance(hour, int) and 0 <= hour < 24
ValidHour(e) == e.type = "int" /\ 0 <= e.v /\ e.v < 24

\* hours is None or a list of entries; the result is None or a list of
\* integers.  "not valid_hours and hours" is false for an empty list, which
\* is returned as it is.
validate_hours(hours) ==
    IF hours = None THEN None
    ELSE LET valid == SelectSeq(hours.items, ValidHour)
             valid_hours == [i \in 1..Len(valid) |-> valid[i].v]
         IN  IF valid_hours = <<>> /\ hours.items # <<>> THEN None ELSE List(valid_hours)

----------------------------------------------------------------------------
(* TweetPredictor.predict_remaining_hours (predictor/base_predictor.py)    *)

\* "hour in specific_hours"
InHours(h, specific_hours) ==
    \E i \in 1..Len(specific_hours.items) : specific_hours.items[i] = h

\* (60 - minute) / 60 - second / 3600
RemainingPortion(dt) == RSub(Rat(60 - dt.minute, 60), Rat(dt.second, 3600))

\* the partial current hour left out
IncludeCurrentHourNever(current_hour, specific_hours) == FALSE

\* line 85: include_current_hour
IncludeCurrentHour(current_hour, specific_hours) ==
    specific_hours = None \/ InHours(current_hour, specific_hours)

\* Series.get returns the default for a missing key instead of raising, so
\* the except branches (per-hour rate / 24) are never entered
JointRate(a, weekday, hour) == SeriesGet(a.hour_of_day_averages, <<weekday, hour>>, RInt(0))

\* the body of the loop over the hours lo..hi: an hour outside the filter
\* is skipped, the others add their joint rate times the trend factor.  The
\* running sum is taken over the two halves of the range: the terms are
\* exact rationals, so the grouping does not change the sum.
RECURSIVE FullHoursBetween(_, _, _, _, _, _)
FullHoursBetween(a, weekday, lo, hi, trend_factor, specific_hours) ==
    IF lo > hi THEN RInt(0)
    ELSE IF lo = hi
    THEN IF specific_hours # None /\ ~InHours(lo, specific_hours)
         THEN RInt(0)
         ELSE RMul(JointRate(a, weekday, lo), trend_factor)
    ELSE LET mid == (lo + hi) \div 2
         IN  RAdd(FullHoursBetween(a, weekday, lo, mid, trend_factor, specific_hours),
                  FullHoursBetween(a, weekday, mid + 1, hi, trend_factor,
                                   specific_hours))

\* the loop "for hour in range(current_hour + 1, 24)", from hour h on
FullHours(a, weekday, h, trend_factor, specific_hours) ==
    FullHoursBetween(a, weekday, h, 23, trend_factor, specific_hours)

\* target_datetime is datetime.combine(date, datetime.max.time()), given by
\* its date; the remaining time is whole seconds plus 0.999999 s
predict_remaining_hours(a, current_datetime, target_date, trend_factor, specific_hours) ==
    LET remaining_whole_seconds ==
            (target_date - current_datetime.date) * 86400
            + 86399 - SecondsOfDay(current_datetime)
    IN  IF remaining_whole_seconds < 0
        THEN [date |-> current_datetime.date, expected_tweets |-> RInt(0),
              remaining_seconds |-> 0]
        ELSE
            LET current_hour == current_datetime.hour
                current_weekday == Weekday(current_datetime.date)
                first == IF IncludeCurrentHour(current_hour, specific_hours)
                         THEN RMul(RMul(JointRate(a, current_weekday, current_hour),
                                        RemainingPortion(current_datetime)),
                                   trend_factor)
                         ELSE RInt(0)
            IN  [date |-> current_datetime.date,
                 expected_tweets |->
                     RAdd(first, FullHours(a, current_weekday, current_hour + 1,
                                           trend_factor, specific_hours)),
                 remaining_seconds |-> remaining_whole_seconds,
                 hours_included |-> specific_hours]

----------------------------------------------------------------------------
(* predict_daily (predictor/daily_predictor.py), called by                 *)
(* TweetPredictor.predict_count with target_date_str given.                *)

MaxDate(df) == SetMax({df[k].date : k \in 1..Len(df)})

\* df['created_at'].max()
MaxCreatedAt(df) ==
    LET S == {df[k].created_at : k \in 1..Len(df)}
    IN  CHOOSE x \in S : \A y \in S : DtLeq(y, x)

\* the comparison one day late
TargetInPastOffByOne(target_date, df) == target_date + 1 < MaxDate(df)

\* lines 45-48: "Check if target date is in the past"
TargetInPast(target_date, df) == target_date < MaxDate(df)

\* a weekday missing from weekday_averages counted as zero
WeekdayRateOrZero(a, weekday) == SeriesGet(a.weekday_averages, weekday, RInt(0))

\* line 125: the default is the mean of the daily counts
WeekdayRate(a, weekday) ==
    SeriesGet(a.weekday_averages, weekday, Mean(Counts(a.daily_counts)))

\* lines 115-122: "for hour in hours", every list entry counted.  The
\* running sum of the loop is taken over the two halves of the list: the
\* terms are exact rationals, so the grouping does not change the sum, and
\* the evaluation stays shallow for a list of 24 hours.
RECURSIVE FilteredDay(_, _, _, _)
FilteredDay(a, weekday, items, trend_factor) ==
    IF items = <<>> THEN RInt(0)
    ELSE IF Len(items) = 1
    THEN RMul(JointRate(a, weekday, items[1]), trend_factor)
    ELSE LET half == Len(items) \div 2
         IN  RAdd(FilteredDay(a, weekday, SubSeq(items, 1, half), trend_factor),
                  FilteredDay(a, weekday, SubSeq(items, half + 1, Len(items)),
                              trend_factor))

\* the expected count of one full day without the trend factor
ExpectedForDayUntrended(a, predict_date, hours, trend_factor) ==
    IF hours # None
    THEN FilteredDay(a, Weekday(predict_date), hours.items, RInt(1))
    ELSE WeekdayRate(a, Weekday(predict_date))

\* lines 113-126: expected count of one full day
ExpectedForDay(a, predict_date, hours, trend_factor) ==
    IF hours # None
    THEN FilteredDay(a, Weekday(predict_date), hours.items, trend_factor)
    ELSE RMul(WeekdayRate(a, Weekday(predict_date)), trend_factor)

\* no hours filter on the same-day call
SameDayHoursDropped(hours) == None

\* line 68: specific_hours=hours
SameDayHours(hours) == hours

predict_daily(a, target_date, use_trend, raw_hours) ==
    IF a.hourly_rates = None THEN None
    ELSE
        LET hours == validate_hours(raw_hours)
        IN  IF TargetInPast(target_date, a.df) THEN None
            ELSE
                LET current_datetime ==
                        [MaxCreatedAt(a.df) EXCEPT !.date = MaxDate(a.df)]
                    trend_factor == calculate_trend_factor(a, use_trend)
                IN  IF target_date = current_datetime.date
                    THEN
                        LET remaining_prediction ==
                                predict_remaining_hours(a, current_datetime, target_date,
                                                        trend_factor, SameDayHours(hours))
                        IN  [from_date |-> current_datetime.date,
                             to_date |-> target_date,
                             days |-> 0,
                             total_expected_tweets |-> remaining_prediction.expected_tweets,
                             daily_breakdown |->
                                 [d \in {current_datetime.date} |->
                                     remaining_prediction.expected_tweets]]
                    ELSE
                        LET current_day_prediction ==
                                predict_remaining_hours(a, current_datetime,
                                                        current_datetime.date,
                                                        trend_factor, hours)
                            remaining_days == target_date - current_datetime.date
                            later == (current_datetime.date + 1)..
                                     (current_datetime.date + remaining_days)
                            day_by_day ==
                                [d \in {current_datetime.date} \cup later |->
                                    IF d = current_datetime.date
                                    THEN current_day_prediction.expected_tweets
                                    ELSE ExpectedForDay(a, d, hours, trend_factor)]
                        IN  [from_date |-> current_datetime.date,
                             to_date |-> target_date,
                             days |-> remaining_days
                                      + (IF current_day_prediction.expected_tweets = RInt(0)
                                         THEN 0 ELSE 1),
                             total_expected_tweets |->
                                 RAdd(current_day_prediction.expected_tweets,
                                      RSumSeq([i \in 1..remaining_days |->
                                                  ExpectedForDay(a, current_datetime.date + i,
                                                                 hours, trend_factor)])),
                             daily_breakdown |-> day_by_day,
                             specific_hours |-> hours]

----------------------------------------------------------------------------
(* Event logs handed to the analyzer: the frame load_data leaves in        *)
(* loader.df for a well-formed file, ascending by created_at.  A log       *)
(* starts on Monday 2025-03-03 with up to MaxHistory days of one event at  *)
(* 10:00:00 each, followed by MaxTail days that each hold any one of the   *)
(* DayProfiles (none, one or two events).                                  *)

MaxHistory == 7

MaxTail == 4

\* latest target: this many days after the last event
MaxAhead == 2

\* earliest target: this many days before the last event
MaxBack == 1

FirstDate == Ymd2Ord(2025, 3, 3)

TimeOfDay(H, M, S) == [hour |-> H, minute |-> M, second |-> S]

SteadyProfile == <<TimeOfDay(10, 0, 0)>>

DayProfiles ==
    { <<>>,
      SteadyProfile,
      <<TimeOfDay(10, 0, 0), TimeOfDay(14, 30, 20)>> }

EventsOfDay(date, profile) ==
    [i \in 1..Len(profile) |->
        [created_at |-> DateTime(date, profile[i].hour, profile[i].minute, profile[i].second),
         date |-> date,
         hour |-> profile[i].hour,
         weekday |-> Weekday(date)]]

ProfileOfDay(history, tail, n) == IF n <= history THEN SteadyProfile ELSE tail[n - history]

RECURSIVE EventsUpTo(_, _, _)
EventsUpTo(history, tail, n) ==
    IF n = 0 THEN <<>>
    ELSE EventsUpTo(history, tail, n - 1)
         \o EventsOfDay(FirstDate + n - 1, ProfileOfDay(history, tail, n))

LogOf(history, tail) ==
    LET ev == EventsUpTo(history, tail, history + MaxTail)
    IN  [i \in 1..Len(ev) |->
            [row |-> i, id |-> IdTok(i), created_at |-> ev[i].created_at,
             date |-> ev[i].date, hour |-> ev[i].hour, weekday |-> ev[i].weekday]]

EventLogs ==
    { LogOf(history, tail) : history \in 0..MaxHistory, tail \in [1..MaxTail -> DayProfiles] }
    \ { <<>> }

\* hours arguments of predict_count
HoursArgs ==
    << None,
       List(<<IntEntry(10)>>),
       List(<<IntEntry(14), IntEntry(25)>>),
       List(<<IntEntry(24), FloatEntry(10)>>),
       List(<<>>),
       List(<<IntEntry(10), IntEntry(10)>>) >>

\* target dates of predict_count
TargetDates(df) == (MaxDate(df) - MaxBack)..(MaxDate(df) + MaxAhead)

----------------------------------------------------------------------------
(* The forecasting driver: analyze_patterns, then predict_count.           *)

\* the estimator and the evaluator not in use
IdleMarket ==
    /\ market = None
    /\ draws = <<>>
    /\ simulations = <<>>
    /\ frame_probabilities = None

IdleBacktest ==
    /\ backtest = None
    /\ metrics = None

IdleCollector ==
    /\ scraper = None
    /\ new_tweets = <<>>
    /\ appended = <<>>
    /\ checks = 0

Idle ==
    /\ csv = <<>>
    /\ loader = LoaderInit
    /\ timestamp_str = <<>>
    /\ parsed = None
    /\ coerced = None
    /\ IdleMarket
    /\ IdleBacktest
    /\ IdleCollector

Init ==
    /\ pc = "constructed"
    /\ \E df \in EventLogs : analyzer = AnalyzerInit(df)
    /\ request = None
    /\ prediction = None
    /\ Idle

analyze_patterns ==
    /\ pc = "constructed"
    /\ analyzer' = AnalyzePatterns(analyzer)
    /\ pc' = "analyzed"
    /\ UNCHANGED <<csv, loader, timestamp_str, parsed, coerced, request, prediction, marketVars, backtestVars, collectorVars>>

predict_count ==
    /\ pc = "analyzed"
    /\ \E target_date \in TargetDates(analyzer.df), use_trend \in BOOLEAN,
          i \in DOMAIN HoursArgs :
          /\ request' = [target_date |-> target_date, use_trend |-> use_trend,
                         hours |-> HoursArgs[i]]
          /\ prediction' = predict_daily(analyzer, target_date, use_trend, HoursArgs[i])
    /\ pc' = "predicted"
    /\ UNCHANGED <<csv, loader, timestamp_str, parsed, coerced, analyzer, marketVars, backtestVars, collectorVars>>

Next == analyze_patterns \/ predict_count

Spec == Init /\ [][Next]_vars

----------------------------------------------------------------------------
(* The loader driver: a file is on disk, load_data reads it.               *)

IdleForecast ==
    /\ analyzer = AnalyzerInit(<<>>)
    /\ request = None
    /\ prediction = None
    /\ IdleMarket
    /\ IdleBacktest
    /\ IdleCollector

InitLoad ==
    /\ pc = "constructed"
    /\ csv \in RawFiles
    /\ loader = LoaderInit
    /\ timestamp_str = <<>>
    /\ parsed = None
    /\ coerced = None
    /\ IdleForecast

load_data ==
    /\ pc = "constructed"
    /\ \E sorted \in sort_values(ParsedRows(read_csv(csv))) :
          loader' = LoadDataWith(loader, csv, sorted)
    /\ pc' = "loaded"
    /\ UNCHANGED <<csv, timestamp_str, parsed, coerced, analyzer, request, prediction, marketVars, backtestVars, collectorVars>>

NextLoad == load_data

SpecLoad == InitLoad /\ [][NextLoad]_vars

----------------------------------------------------------------------------
(* The timestamp driver: one string goes through parse_timestamp and       *)
(* through the to_datetime conversion of load_data.                        *)

InitParse ==
    /\ pc = "start"
    /\ timestamp_str \in TimestampStrings
    /\ parsed = None
    /\ coerced = None
    /\ csv = <<>>
    /\ loader = LoaderInit
    /\ IdleForecast

ParseTimestamp ==
    /\ pc = "start"
    /\ parsed' = parse_timestamp(timestamp_str)
    /\ pc' = "parsed"
    /\ UNCHANGED <<csv, loader, timestamp_str, coerced, analyzer, request, prediction, marketVars, backtestVars, collectorVars>>

ToDatetime ==
    /\ pc = "parsed"
    /\ coerced' = to_datetime(timestamp_str)
    /\ pc' = "coerced"
    /\ UNCHANGED <<csv, loader, timestamp_str, parsed, analyzer, request, prediction, marketVars, backtestVars, collectorVars>>

NextParse == ParseTimestamp \/ ToDatetime

SpecParse == InitParse /\ [][NextParse]_vars

----------------------------------------------------------------------------
(* Properties of the deterministic forecaster (specification Spec).        *)

Predicted == pc = "predicted"

Accepted == Predicted /\ prediction # None

\* C1: predict_count returns None, hence no total and no breakdown, for
\* every target date earlier than the date of the last event of the log,
\* whatever the hours filter and whether the trend is applied or not.
C1_PastTargetRejected ==
    Predicted /\ request.target_date < MaxDate(analyzer.df) => prediction = None

C1_Witness ==
    /\ Predicted
    /\ request.target_date < MaxDate(analyzer.df)
    /\ request.use_trend
    /\ request.hours # None
    /\ prediction = None

\* C2: for a fixed analyzed log, trend setting and hours filter, the total
\* of an accepted forecast is at least the total of the forecast for every
\* accepted earlier target date.
C2_TotalMonotoneInTarget ==
    Accepted =>
        \A d1 \in MaxDate(analyzer.df)..request.target_date :
            RLeq(predict_daily(analyzer, d1, request.use_trend,
                               request.hours).total_expected_tweets,
                 prediction.total_expected_tweets)

C2_Witness ==
    /\ Accepted
    /\ request.hours # None
    /\ request.use_trend
    /\ calculate_trend_factor(analyzer, TRUE) # RInt(1)
    /\ request.target_date = MaxDate(analyzer.df) + 2
    /\ RLt(predict_daily(analyzer, MaxDate(analyzer.df), request.use_trend,
                         request.hours).total_expected_tweets,
           predict_daily(analyzer, MaxDate(analyzer.df) + 1, request.use_trend,
                         request.hours).total_expected_tweets)
    /\ RLt(predict_daily(analyzer, MaxDate(analyzer.df) + 1, request.use_trend,
                         request.hours).total_expected_tweets,
           prediction.total_expected_tweets)

\* events of the log on weekday w, and the distinct dates they fall on
EventsOnWeekday(df, w) == {k \in 1..Len(df) : Weekday(df[k].date) = w}

DatesOnWeekday(df, w) == {df[k].date : k \in EventsOnWeekday(df, w)}

JointRateSum(a, w) == RSumSeq([i \in 1..24 |-> JointRate(a, w, i - 1)])

\* C8: after analyze_patterns, for every weekday that occurs in the log,
\* the sum over the 24 hours of the joint (weekday, hour) rates times the
\* number of distinct dates of that weekday equals the number of events on
\* that weekday.
C8_JointRatesReconstructCounts ==
    pc = "analyzed" =>
        \A w \in 0..6 :
            EventsOnWeekday(analyzer.df, w) # {} =>
                REq(RMul(JointRateSum(analyzer, w),
                         RInt(Cardinality(DatesOnWeekday(analyzer.df, w)))),
                    RInt(Cardinality(EventsOnWeekday(analyzer.df, w))))

C8_Witness ==
    /\ pc = "analyzed"
    /\ \E w \in 0..6 :
          /\ Cardinality(DatesOnWeekday(analyzer.df, w)) = 2
          /\ Cardinality(EventsOnWeekday(analyzer.df, w)) = 3
          /\ JointRate(analyzer, w, 10) = RInt(1)
          /\ JointRate(analyzer, w, 14) = Rat(1, 2)

\* mean of the daily counts of the log: events / dates that have events
OverallDailyMean(df) == Rat(Len(df), Cardinality({df[k].date : k \in 1..Len(df)}))

\* C9: in an unfiltered forecast, a future date whose weekday has no event
\* in the log is given the overall mean daily count of the log (times the
\* trend factor, which is 1 when the trend is off): a positive number, not
\* zero and not an error.
C9_MissingWeekdayGetsOverallMean ==
    Accepted /\ request.hours = None =>
        \A d \in (MaxDate(analyzer.df) + 1)..request.target_date :
            EventsOnWeekday(analyzer.df, Weekday(d)) = {} =>
                /\ REq(prediction.daily_breakdown[d],
                       RMul(OverallDailyMean(analyzer.df),
                            calculate_trend_factor(analyzer, request.use_trend)))
                /\ RLt(RInt(0), prediction.daily_breakdown[d])
                /\ ~request.use_trend =>
                       prediction.daily_breakdown[d] = OverallDailyMean(analyzer.df)

C9_Witness ==
    /\ Accepted
    /\ request.hours = None
    /\ ~request.use_trend
    /\ \E d \in (MaxDate(analyzer.df) + 1)..request.target_date :
          /\ EventsOnWeekday(analyzer.df, Weekday(d)) = {}
          /\ prediction.daily_breakdown[d] = Rat(3, 2)

\* the log of the scenario: one event per day on 7 consecutive days, each
\* at 10:00:00
SevenDaysAtTen(df) ==
    /\ Len(df) = 7
    /\ \A i \in 1..7 : df[i].created_at = DateTime(df[1].date + i - 1, 10, 0, 0)

C10_Scenario ==
    /\ Predicted
    /\ SevenDaysAtTen(analyzer.df)
    /\ request.target_date = MaxDate(analyzer.df) + 1
    /\ ~request.use_trend
    /\ request.hours = None

\* C10: in the scenario the total is about 1 (within 1/10).
C10_TotalAboutOne ==
    C10_Scenario =>
        /\ prediction # None
        /\ RLeq(Rat(9, 10), prediction.total_expected_tweets)
        /\ RLeq(prediction.total_expected_tweets, Rat(11, 10))

\* C10, with the rest of the last day counted: in the scenario the total
\* is exactly 2, namely 1 for the rest of the last event's day (the whole of
\* hour 10, since the last event is at 10:00:00) and 1 for the target day
\* (its weekday average); every joint rate is 1 at hour 10 and 0 at any
\* other hour.
C10_TotalIsTwo ==
    C10_Scenario =>
        /\ prediction # None
        /\ prediction.total_expected_tweets = RInt(2)
        /\ prediction.daily_breakdown[MaxDate(analyzer.df)] = RInt(1)
        /\ prediction.daily_breakdown[MaxDate(analyzer.df) + 1] = RInt(1)
        /\ \A w \in 0..6, h \in 0..23 :
              JointRate(analyzer, w, h) = IF h = 10 THEN RInt(1) ELSE RInt(0)

C10_Witness == C10_Scenario /\ prediction # None

----------------------------------------------------------------------------
(* Properties of the loader (specification SpecLoad).                      *)

Loaded == pc = "loaded"

\* a data line with the three fields of the header and a timestamp that
\* the conversion accepts
GoodRow(row) ==
    /\ Len(row) = HeaderWidth
    /\ row[3].k = "ts"
    /\ to_datetime(row[3].v) # NaT

GoodRows(rows) == {i \in 1..Len(rows) : GoodRow(rows[i])}

\* C3: the frame load_data leaves holds no two records with the same
\* identifier, also when the file holds an identifier on two lines.
C3_NoDuplicateIds ==
    Loaded /\ loader.ret =>
        \A i, j \in 1..Len(loader.df) : i # j => loader.df[i].id # loader.df[j].id

\* C4: the frame load_data leaves is ascending by created_at, and records
\* with equal created_at are in the order of their lines in the file.
C4_SortedStable ==
    Loaded /\ loader.ret =>
        \A i, j \in 1..Len(loader.df) :
            i < j =>
                /\ DtLeq(loader.df[i].created_at, loader.df[j].created_at)
                /\ loader.df[i].created_at = loader.df[j].created_at =>
                       loader.df[i].row < loader.df[j].row

\* C5: when one line of the file is bad (wrong field count or invalid
\* timestamp) and the others are good, load_data returns True and the frame
\* holds exactly the good lines.
C5_BadRowDroppedAlone ==
    Loaded /\ GoodRows(csv) # {} /\ Cardinality(GoodRows(csv)) + 1 = Len(csv) =>
        /\ loader.ret
        /\ {loader.df[i].row : i \in 1..Len(loader.df)} = GoodRows(csv)

----------------------------------------------------------------------------
(* Properties of timestamp parsing (specification SpecParse).              *)

\* C6: a string that does not match the zero-padded pattern
\* YYYY:MM:DD:HH:MM:SS yields no timestamp: parse_timestamp returns None
\* and the conversion of load_data yields NaT.
C6_InexactStringsRejected ==
    pc = "coerced" /\ ~MatchesTimestampRegex(timestamp_str) =>
        parsed = None /\ coerced = NaT

\* the string holds six integers that form a calendar date and time
NamesDateTime(ts) ==
    /\ Len(ts) = 6
    /\ \A i \in 1..6 : IntParses(ts[i])
    /\ ValidDateTime(IntOf(ts[1]), IntOf(ts[2]), IntOf(ts[3]),
                     IntOf(ts[4]), IntOf(ts[5]), IntOf(ts[6]))

YearOf(ts) == IntOf(ts[1])

NaiveOf(ts) ==
    DateTime(Ymd2Ord(IntOf(ts[1]), IntOf(ts[2]), IntOf(ts[3])),
             IntOf(ts[4]), IntOf(ts[5]), IntOf(ts[6]))

IsTimestamp(r) == "utcoffset" \in DOMAIN r

\* C7: parse_timestamp returns a timestamp for a local time in a DST
\* transition: a repeated local time (fall back) keeps its wall-clock
\* reading and denotes the earlier of its two instants; a skipped local
\* time (spring forward) becomes the local time one hour later.
C7_DstResolved ==
    pc # "start" /\ NamesDateTime(timestamp_str) =>
        /\ IsAmbiguous(YearOf(timestamp_str), NaiveOf(timestamp_str)) =>
              /\ IsTimestamp(parsed)
              /\ parsed.naive = NaiveOf(timestamp_str)
              /\ \A off \in {EST, EDT} :
                    DtLeq(UtcOf(parsed), UtcOf(Aware(NaiveOf(timestamp_str), off)))
        /\ IsNonExistent(YearOf(timestamp_str), NaiveOf(timestamp_str)) =>
              /\ IsTimestamp(parsed)
              /\ parsed.naive = PlusOneHour(NaiveOf(timestamp_str))
              /\ parsed.utcoffset = EDT

C7_Witness ==
    /\ pc # "start"
    /\ NamesDateTime(timestamp_str)
    /\ IsAmbiguous(YearOf(timestamp_str), NaiveOf(timestamp_str))
    /\ parsed = Aware(DateTime(Ymd2Ord(2025, 11, 2), 1, 30, 0), EDT)

----------------------------------------------------------------------------
(* Properties of the hours filter (specification Spec).                    *)

\* an entry that is an integer in 0..23
InRangeEntry(e) == e.type = "int" /\ e.v \in 0..23

\* the integers in 0..23 of a supplied list, in the order supplied
ValidEntries(hours) ==
    LET keep == SelectSeq(hours.items, InRangeEntry)
    IN  [i \in 1..Len(keep) |-> keep[i].v]

\* the forecast of the same request made without a filter
Unfiltered == predict_daily(analyzer, request.target_date, request.use_trend, None)

\* the filter the forecast reports, which it does for a target after the
\* last event's date
FilterKeepsValidEntries ==
    request.target_date > MaxDate(analyzer.df) /\ ValidEntries(request.hours) # <<>> =>
        prediction.specific_hours = List(ValidEntries(request.hours))

----------------------------------------------------------------------------
(* Properties of the trend factor (specification Spec).  A "day" of the    *)
(* log is a date that has at least one event: the daily counts hold one    *)
(* row per such date.                                                      *)

\* the dates of the log that have events, ascending
ActiveDates(df) == SortedSeq({df[k].date : k \in 1..Len(df)})

EventsOn(df, dates) == Cardinality({k \in 1..Len(df) : df[k].date \in dates})

\* mean daily count over the trailing 7 days of the log
TrailingWeekMean(df) ==
    LET dates == ActiveDates(df)
        n == Len(dates)
    IN  Rat(EventsOn(df, {dates[i] : i \in (n - 6)..n}), 7)

ExpectedTrendFactor(df, use_trend) ==
    IF ~use_trend \/ Len(ActiveDates(df)) < 7 THEN RInt(1)
    ELSE RDiv(TrailingWeekMean(df), OverallDailyMean(df))

\* C16: the trend factor is 1 when the trend is disabled and when the log
\* has fewer than 7 days; otherwise it is the mean daily count of the
\* trailing 7 days divided by the mean daily count of the whole log; and the
\* forecast total is that factor times the total forecast without trend.
C16_TrendFactor ==
    Accepted =>
        /\ calculate_trend_factor(analyzer, request.use_trend)
               = ExpectedTrendFactor(analyzer.df, request.use_trend)
        /\ prediction.total_expected_tweets
               = RMul(ExpectedTrendFactor(analyzer.df, request.use_trend),
                      predict_daily(analyzer, request.target_date, FALSE,
                                    request.hours).total_expected_tweets)

C16_Witness ==
    /\ Accepted
    /\ request.use_trend
    /\ Len(ActiveDates(analyzer.df)) > 7
    /\ RLt(RInt(1), ExpectedTrendFactor(analyzer.df, TRUE))
    /\ RLt(RInt(0), prediction.total_expected_tweets)

----------------------------------------------------------------------------
(* Properties of the fallback for an absent joint key (specification Spec). *)

\* the joint rate of (weekday, hour), or for an absent key the per-hour
\* rate of the hour divided by 24
RateOrFallback(a, weekday, hour) ==
    IF <<weekday, hour>> \in DOMAIN a.hour_of_day_averages.data
    THEN a.hour_of_day_averages.data[<<weekday, hour>>]
    ELSE RDiv(SeriesGet(a.hourly_rates, hour, RInt(0)), RInt(24))

\* the rest of the last event's day with that rate: the pro-rated current
\* hour and every later hour of the day, times the trend factor
RemainingWithFallback(a, dt, trend_factor) ==
    RAdd(RMul(RMul(RateOrFallback(a, Weekday(dt.date), dt.hour), RemainingPortion(dt)),
              trend_factor),
         RSumSeq([i \in 1..(23 - dt.hour) |->
                    RMul(RateOrFallback(a, Weekday(dt.date), dt.hour + i), trend_factor)]))

\* C20: in an unfiltered forecast for the last event's own date, an hour
\* whose (weekday, hour) key is absent from the joint rates contributes its
\* per-hour rate divided by 24 (pro-rated for the current hour, times the
\* trend factor), so the total is the sum of the rates with that fallback.
C20_AbsentKeyFallsBack ==
    Accepted /\ request.hours = None /\ request.target_date = MaxDate(analyzer.df) =>
        prediction.total_expected_tweets
            = RemainingWithFallback(analyzer,
                                    [MaxCreatedAt(analyzer.df) EXCEPT
                                        !.date = MaxDate(analyzer.df)],
                                    calculate_trend_factor(analyzer, request.use_trend))

----------------------------------------------------------------------------
(* predict_tweet_frame_probabilities (polymarket_predictor/                *)
(* tweet_predictor.py): the count so far, the Monte Carlo samples and the  *)
(* count frames.  Samples are real numbers, here exact rationals.  The     *)
(* centre and the scale of the normal distribution (final_prediction,      *)
(* remaining_vol) only decide which reals are drawn; the draws are taken   *)
(* from a set of reals around the frame boundaries.                        *)

\* a frame bound: an integer, or float('inf')
Finite(v) == [inf |-> FALSE, v |-> v]

Infinity == [inf |-> TRUE, v |-> 0]

Frame(name, min, max) == [name |-> name, min |-> min, max |-> max]

\* lines 528-543 and 629-644
count_frames ==
    << Frame("less than 100", 0, Finite(99)),
       Frame("100-124", 100, Finite(124)),
       Frame("125-149", 125, Finite(149)),
       Frame("150-174", 150, Finite(174)),
       Frame("175-199", 175, Finite(199)),
       Frame("200-224", 200, Finite(224)),
       Frame("225-249", 225, Finite(249)),
       Frame("250-274", 250, Finite(274)),
       Frame("275-299", 275, Finite(299)),
       Frame("300-324", 300, Finite(324)),
       Frame("325-349", 325, Finite(349)),
       Frame("350-374", 350, Finite(374)),
       Frame("375-399", 375, Finite(399)),
       Frame("400 or more", 400, Infinity) >>

FrameNames == {count_frames[i].name : i \in DOMAIN count_frames}

\* membership with the upper bound excluded
InFrameBelowMax(x, frame) ==
    /\ RLeq(RInt(frame.min), x)
    /\ frame.max.inf \/ RLt(x, RInt(frame.max.v))

\* (simulations >= frame["min"]) & (simulations <= frame["max"]), and
\* frame["min"] <= final_count <= frame["max"]
InFrame(x, frame) ==
    /\ RLeq(RInt(frame.min), x)
    /\ frame.max.inf \/ RLeq(x, RInt(frame.max.v))

\* the samples left as drawn
KeepSamples(samples, tweet_count) == samples

\* line 525: np.maximum(simulations, tweet_count)
ClipSamples(samples, tweet_count) ==
    [i \in 1..Len(samples) |->
        IF RLt(samples[i], RInt(tweet_count)) THEN RInt(tweet_count) ELSE samples[i]]

\* lines 546-550: count / len(simulations) * 100 per frame
SampleFrameProbabilities(samples) ==
    [name \in FrameNames |->
        LET frame == CHOOSE f \in Range(count_frames) : f.name = name
            count == Cardinality({i \in 1..Len(samples) : InFrame(samples[i], frame)})
        IN  RMul(Rat(count, Len(samples)), RInt(100))]

\* lines 646-656: the first frame that holds final_count gets 100.0; when
\* none does, winning_frame stays None and the entry is stored under None
FinalFrameProbabilities(final_count) ==
    LET holding == {i \in DOMAIN count_frames : InFrame(RInt(final_count), count_frames[i])}
        winning_frame == IF holding = {} THEN "None"
                         ELSE count_frames[SetMin(holding)].name
    IN  [name \in FrameNames \cup {winning_frame} |->
            IF name = winning_frame THEN RInt(100) ELSE RInt(0)]

\* lines 665-673: 0.0 for every frame
ErrorFrameProbabilities == [name \in FrameNames |-> RInt(0)]

\* number of samples drawn (5000 in the code)
MaxSamples == 3

\* final counts 0..MaxCount of an ended event
MaxCount == 420

\* counts so far of a running event
ObservedCounts == {0, 99, 100, 400}

\* values np.random.normal can return: below zero, on, between and beyond
\* the frame bounds
RawDraws ==
    { RInt(-5), RInt(99), Rat(199, 2), RInt(100), Rat(249, 2), Rat(799, 2),
      RInt(400), RInt(1000) }

\* what the call finds: an exception inside the try block ("error"), the
\* event not yet started (elapsed_days <= 0, "before"), the event running
\* with tweet_count events so far, or the event over with its final count
MarketStates ==
    { [status |-> "error", tweet_count |-> 0] }
    \cup { [status |-> st, tweet_count |-> c] :
              st \in {"before", "running"}, c \in ObservedCounts }
    \cup { [status |-> "ended", tweet_count |-> c] : c \in 0..MaxCount }

InitMarket ==
    /\ pc = "market"
    /\ market \in MarketStates
    /\ draws = <<>>
    /\ simulations = <<>>
    /\ frame_probabilities = None
    /\ csv = <<>>
    /\ loader = LoaderInit
    /\ timestamp_str = <<>>
    /\ parsed = None
    /\ coerced = None
    /\ analyzer = AnalyzerInit(<<>>)
    /\ request = None
    /\ prediction = None
    /\ IdleBacktest
    /\ IdleCollector

predict_tweet_frame_probabilities ==
    /\ pc = "market"
    /\ CASE market.status = "error" ->
              /\ frame_probabilities' = ErrorFrameProbabilities
              /\ UNCHANGED <<draws, simulations>>
         [] market.status = "before" ->
              /\ frame_probabilities' = None
              /\ UNCHANGED <<draws, simulations>>
         [] market.status = "ended" ->
              /\ frame_probabilities' = FinalFrameProbabilities(market.tweet_count)
              /\ UNCHANGED <<draws, simulations>>
         [] market.status = "running" ->
              \E normal \in [1..MaxSamples -> RawDraws] :
                  /\ draws' = normal
                  /\ simulations' = ClipSamples(normal, market.tweet_count)
                  /\ frame_probabilities'
                         = SampleFrameProbabilities(ClipSamples(normal, market.tweet_count))
    /\ pc' = "estimated"
    /\ UNCHANGED <<csv, loader, timestamp_str, parsed, coerced, analyzer, request,
                   prediction, market, backtestVars, collectorVars>>

NextMarket == predict_tweet_frame_probabilities

SpecMarket == InitMarket /\ [][NextMarket]_vars

----------------------------------------------------------------------------
(* Properties of the bracket estimator (specification SpecMarket).         *)

Estimated == pc = "estimated"

Sampled == Estimated /\ market.status = "running"

\* C11: every sample that is bucketed is at least the count observed so
\* far, whatever was drawn.
C11_SamplesAtLeastObserved ==
    Sampled =>
        /\ Len(simulations) = MaxSamples
        /\ \A i \in 1..Len(simulations) : RLeq(RInt(market.tweet_count), simulations[i])

C11_Witness ==
    /\ Sampled
    /\ market.tweet_count = 100
    /\ \E i \in 1..Len(draws) :
          draws[i] = Rat(199, 2) /\ simulations[i] = RInt(100)

\* sum of the probabilities of a mapping
SumOver(f, S) ==
    LET keys == [i \in 1..(Len(count_frames) + 1) |->
                    IF i <= Len(count_frames) THEN count_frames[i].name ELSE "None"]
    IN  RSumSeq([i \in 1..Len(keys) |-> IF keys[i] \in S THEN f[keys[i]] ELSE RInt(0)])

\* C12: every mapping the call returns (sampling path, ended event, error
\* path) has each probability in [0, 100] and a sum within 0.5 of 100.
C12_ProbabilitiesSumTo100 ==
    Estimated /\ frame_probabilities # None =>
        /\ \A name \in DOMAIN frame_probabilities :
              /\ RLeq(RInt(0), frame_probabilities[name])
              /\ RLeq(frame_probabilities[name], RInt(100))
        /\ RLeq(Rat(199, 2), SumOver(frame_probabilities, DOMAIN frame_probabilities))
        /\ RLeq(SumOver(frame_probabilities, DOMAIN frame_probabilities), Rat(201, 2))

\* C13: the final count of an ended event, any integer from 0 on, lies in
\* the inclusive range of exactly one frame of the ladder, and that frame
\* alone is given 100.
C13_LadderExhaustiveExclusive ==
    Estimated /\ market.status = "ended" =>
        /\ Cardinality({i \in DOMAIN count_frames :
                            count_frames[i].min <= market.tweet_count
                            /\ (count_frames[i].max.inf
                                \/ market.tweet_count <= count_frames[i].max.v)}) = 1
        /\ DOMAIN frame_probabilities = FrameNames
        /\ Cardinality({name \in FrameNames : frame_probabilities[name] = RInt(100)}) = 1
        /\ \A i \in DOMAIN count_frames :
              frame_probabilities[count_frames[i].name] = RInt(100) =>
                  /\ count_frames[i].min <= market.tweet_count
                  /\ count_frames[i].max.inf
                        \/ market.tweet_count <= count_frames[i].max.v

C13_Witness ==
    /\ Estimated
    /\ market = [status |-> "ended", tweet_count |-> 399]
    /\ frame_probabilities["375-399"] = RInt(100)

\* C19: every sample is counted in exactly one frame, so the counts per
\* frame add up to the number of samples (the probabilities to 100).
C19_EachSampleInOneFrame ==
    Sampled =>
        /\ \A i \in 1..Len(simulations) :
              Cardinality({k \in DOMAIN count_frames :
                              InFrame(simulations[i], count_frames[k])}) = 1
        /\ SumOver(frame_probabilities, FrameNames) = RInt(100)

----------------------------------------------------------------------------
(* Binary floating point, round to nearest, ties to even.  A float is the  *)
(* rational it denotes.  The precision is MantissaBits (53 for the         *)
(* doubles of the code); the exponent range is wide enough for every value *)
(* met, so nothing overflows or becomes subnormal.                         *)

MantissaBits == 8

Pow2(k) == 2 ^ k

\* 2^e as a rational, e of either sign
Scale(e) == IF e >= 0 THEN RInt(Pow2(e)) ELSE Rat(1, Pow2(-e))

\* the j with 2^j <= m < 2^(j+1), for an integer m in 1..2^30 - 1
FloorLog2(m) == CHOOSE j \in 0..29 : Pow2(j) <= m /\ m < Pow2(j + 1)

\* the e with 2^e <= x < 2^(e+1), for a rational x > 0: read off the integer
\* part of x when x >= 1, and off the integer part of (d - 1) / n otherwise
\* (d / n > M exactly when (d - 1) \div n >= M)
BinaryExponent(x) ==
    IF x.n >= x.d THEN FloorLog2(x.n \div x.d)
    ELSE -(FloorLog2((x.d - 1) \div x.n) + 1)

\* the exponent k with 2^(p-1) * 2^k <= x < 2^p * 2^k, for x > 0
ExponentOf(x) == BinaryExponent(x) - (MantissaBits - 1)

\* the integer nearest to q >= 0, halves to the even neighbour
RoundHalfEven(q) ==
    LET lo == q.n \div q.d
        twice == RSub(RMul(RInt(2), q), RInt(2 * lo))
    IN  IF RLt(twice, RInt(1)) THEN lo
        ELSE IF RLt(RInt(1), twice) THEN lo + 1
        ELSE IF lo % 2 = 0 THEN lo ELSE lo + 1

\* the float nearest to the rational x
Fl(x) ==
    IF x.n = 0 THEN RInt(0)
    ELSE LET a == [n |-> Abs(x.n), d |-> x.d]
             e == ExponentOf(a)
             m == RoundHalfEven(RDiv(a, Scale(e)))
             r == RMul(RInt(m), Scale(e))
         IN  IF x.n < 0 THEN [n |-> -r.n, d |-> r.d] ELSE r

FlAdd(x, y) == Fl(RAdd(x, y))
FlSub(x, y) == Fl(RSub(x, y))
FlMul(x, y) == Fl(RMul(x, y))
FlDiv(x, y) == Fl(RDiv(x, y))

\* the square of m * 2^e
Sq(m, e) == RMul(RMul(RInt(m), Scale(e)), RMul(RInt(m), Scale(e)))

\* the exponent k with (2^(p-1) * 2^k)^2 <= x < (2^p * 2^k)^2, for x > 0
RootExponentOf(x) == (BinaryExponent(x) \div 2) - (MantissaBits - 1)

\* x ** 0.5 for a float x >= 0: the float nearest to the square root
FlSqrt(x) ==
    IF x.n = 0 THEN RInt(0)
    ELSE LET e == RootExponentOf(x)
             m == SetMax({k \in Pow2(MantissaBits - 1)..(Pow2(MantissaBits) - 1) :
                             RLeq(Sq(k, e), x)})
         IN  IF RLt(Sq(2 * m + 1, e - 1), x)
             THEN RMul(RInt(m + 1), Scale(e))
             ELSE RMul(RInt(m), Scale(e))

\* sum(values) of Python: left to right from 0
RECURSIVE FlSum(_)
FlSum(values) ==
    IF values = <<>> THEN RInt(0)
    ELSE FlAdd(FlSum(SubSeq(values, 1, Len(values) - 1)), values[Len(values)])

----------------------------------------------------------------------------
(* PredictionEvaluator.evaluate_precision (evaluator.py).  The forecast of *)
(* a day is the float nearest to its exact value; the errors and the       *)
(* aggregates are computed in floats as lines 66-83 compute them.          *)

\* line 45: "if len(temp_df) < 100: continue"
MinRows == 100

\* float('inf')
PosInf == [n |-> 1, d |-> 0]

\* the rows up to and including the target date
RowsUpTo(df, target_date) ==
    LET UpTo(row) == row.date <= target_date
    IN  SelectSeq(df, UpTo)

\* self.analyzer.df[self.analyzer.df['date'] < target_date]
RowsBefore(df, target_date) ==
    LET Before(row) == row.date < target_date
    IN  SelectSeq(df, Before)

\* actual_counts.get(fixedDate, 0)
ActualCount(daily_counts, target_date) ==
    IF \E i \in 1..Len(daily_counts) : daily_counts[i].date = target_date
    THEN (CHOOSE r \in Range(daily_counts) : r.date = target_date).count
    ELSE 0

\* lines 60-75: the record of one evaluated day
DayRecord(target_date, total_expected_tweets, actual) ==
    LET predicted == Fl(total_expected_tweets)
        diff == FlSub(predicted, RInt(actual))
        error == [n |-> Abs(diff.n), d |-> diff.d]
    IN  [date |-> target_date,
         predicted |-> predicted,
         actual |-> actual,
         error |-> error,
         percent_error |-> IF actual > 0
                           THEN FlMul(FlDiv(error, RInt(actual)), RInt(100))
                           ELSE PosInf]

\* lines 37-75 have no try statement: an exception raised for one day
\* leaves the loop and evaluate_precision
DayFailure(records) == [failed |-> TRUE, records |-> records]

\* the loop "for days in range(1, days_back)" up to and including day
\* `days`; fault is the day whose analysis or forecast raises (0: none)
RECURSIVE EvaluateDays(_, _, _, _)
EvaluateDays(a, start_date, days, fault) ==
    IF days = 0 THEN [failed |-> FALSE, records |-> <<>>]
    ELSE
        LET before == EvaluateDays(a, start_date, days - 1, fault)
            target_date == start_date + days
            temp_df == RowsBefore(a.df, target_date)
        IN  IF before.failed THEN before
            ELSE IF Len(temp_df) < MinRows THEN before
            ELSE IF days = fault THEN DayFailure(before.records)
            ELSE
                LET temp_analyzer == AnalyzePatterns(AnalyzerInit(temp_df))
                    pred_result == predict_daily(temp_analyzer, target_date, TRUE, None)
                IN  IF pred_result = None THEN before
                    ELSE [failed |-> FALSE,
                          records |->
                              Append(before.records,
                                     DayRecord(target_date,
                                               pred_result.total_expected_tweets,
                                               ActualCount(a.daily_counts, target_date)))]

\* the percent error computed without looking at avg_actual
PercentUnguarded(mae, avg_actual) ==
    IF avg_actual.n = 0 THEN Raised("ZeroDivisionError")
    ELSE FlMul(FlDiv(mae, avg_actual), RInt(100))

\* line 107: (mae / avg_actual) * 100 if avg_actual > 0 else None
Percent(mae, avg_actual) ==
    IF avg_actual.n > 0 THEN FlMul(FlDiv(mae, avg_actual), RInt(100)) ELSE None

\* lines 78-109
Aggregate(records) ==
    LET errors == [i \in 1..Len(records) |-> records[i].error]
        mae == FlDiv(FlSum(errors), RInt(Len(errors)))
        rmse == FlSqrt(FlDiv(FlSum([i \in 1..Len(errors) |-> FlMul(errors[i], errors[i])]),
                             RInt(Len(errors))))
        avg_actual == Fl(Rat(SumSeq([i \in 1..Len(records) |-> records[i].actual]),
                             Len(records)))
    IN  [mae |-> mae,
         rmse |-> rmse,
         avg_error_percent |-> Percent(mae, avg_actual),
         predictions |-> records]

\* the guard of line 17 is read off hourly_rates: analyze_patterns sets
\* daily_counts and hourly_rates together
EvaluatePrecision(a, days_back, fault) ==
    IF a.hourly_rates = None THEN None
    ELSE
        LET end_date == MaxDate(a.df)
            start_date == end_date - days_back
            run == EvaluateDays(a, start_date, days_back - 1, fault)
        IN  IF run.failed THEN Raised("Exception")
            ELSE IF run.records # <<>> THEN Aggregate(run.records)
            ELSE None

----------------------------------------------------------------------------
(* Logs for the backtest.  In the quiet logs Monday 2025-03-03 holds       *)
(* MinRows - 1 or MinRows events at 10:00:00 and each of the next          *)
(* MaxEvalTail days holds one of the QuietProfiles.  In the busy log every *)
(* day holds MinRows events, the last of them at 10:01:42.                 *)

MaxEvalTail == 4

\* largest days_back (14 by default in the code)
MaxDaysBack == 5

BulkSizes == {MinRows - 1, MinRows}

BulkProfile(size) == [i \in 1..size |-> TimeOfDay(10, 0, 0)]

\* a day without events, a day with two
QuietProfiles == { <<>>, <<TimeOfDay(10, 0, 0), TimeOfDay(14, 30, 20)>> }

BusyProfile == BulkProfile(MinRows - 1) \o <<TimeOfDay(10, 1, 42)>>

RECURSIVE TailEvents(_, _)
TailEvents(tail, n) ==
    IF n = 0 THEN <<>>
    ELSE TailEvents(tail, n - 1) \o EventsOfDay(FirstDate + n, tail[n])

BacktestLogOf(head, tail) ==
    LET ev == EventsOfDay(FirstDate, head) \o TailEvents(tail, MaxEvalTail)
    IN  [i \in 1..Len(ev) |->
            [row |-> i, id |-> IdTok(i), created_at |-> ev[i].created_at,
             date |-> ev[i].date, hour |-> ev[i].hour, weekday |-> ev[i].weekday]]

BusyLog == BacktestLogOf(BusyProfile, [n \in 1..MaxEvalTail |-> BusyProfile])

BacktestLogs ==
    { BacktestLogOf(BulkProfile(size), tail) :
          size \in BulkSizes, tail \in [1..MaxEvalTail -> QuietProfiles] }
    \cup { BusyLog }

InitEval ==
    /\ pc = "constructed"
    /\ \E df \in BacktestLogs : analyzer = AnalyzerInit(df)
    /\ request = None
    /\ prediction = None
    /\ Idle

\* days_back is any of 1..MaxDaysBack; fault names the day of the loop whose
\* temporary analysis or forecast raises, 0 when none does
\* the source analyzer re-run on the truncated frame of the last day of the
\* loop
SourceReanalyzed(a, days_back) ==
    IF a.hourly_rates = None \/ days_back < 2
          \/ Len(RowsBefore(a.df, MaxDate(a.df) - 1)) < MinRows
    THEN a
    ELSE AnalyzePatterns(AnalyzerInit(RowsBefore(a.df, MaxDate(a.df) - 1)))

\* lines 43, 52-55: each day works on temp_df, a copy, with a new
\* TweetPatternAnalyzer and a new TweetPredictor; self.analyzer is only read
SourceAfterBacktest(a, days_back) == a

evaluate_precision ==
    /\ pc \in {"constructed", "analyzed"}
    /\ backtest = None
    /\ \E days_back \in 1..MaxDaysBack, fault \in 0..(MaxDaysBack - 1) :
          /\ fault < days_back
          /\ backtest' = [days_back |-> days_back, fault |-> fault]
          /\ metrics' = EvaluatePrecision(analyzer, days_back, fault)
          /\ analyzer' = SourceAfterBacktest(analyzer, days_back)
    /\ pc' = "evaluated"
    /\ UNCHANGED <<csv, loader, timestamp_str, parsed, coerced, request, prediction,
                   marketVars, collectorVars>>

NextEval == analyze_patterns \/ evaluate_precision

SpecEval == InitEval /\ [][NextEval]_vars

----------------------------------------------------------------------------
(* Properties of the backtest (specification SpecEval).                    *)

Evaluated == pc = "evaluated"

ReturnedMetrics == Evaluated /\ metrics # None /\ ~IsRaised(metrics)

\* C14: whenever metrics are returned, MAE >= 0, RMSE >= 0 and RMSE >= MAE.
C14_RmseAtLeastMae ==
    ReturnedMetrics =>
        /\ RLeq(RInt(0), metrics.mae)
        /\ RLeq(RInt(0), metrics.rmse)
        /\ RLeq(metrics.mae, metrics.rmse)

\* the records of the days that raise nothing, in the order of the loop
RecordsOfRun ==
    IF analyzer.hourly_rates = None THEN <<>>
    ELSE EvaluateDays(analyzer, MaxDate(analyzer.df) - backtest.days_back,
                      backtest.days_back - 1, 0).records

IsNumber(x) == DOMAIN x = {"n", "d"} /\ x.d > 0

\* C17: with no record the result is None; with records whose actual counts
\* are all 0 the average percent error is None while MAE and RMSE are
\* numbers; nothing is raised on either way.
C17_DegenerateAggregatesAbsent ==
    Evaluated /\ backtest.fault = 0 =>
        /\ ~IsRaised(metrics)
        /\ RecordsOfRun = <<>> <=> metrics = None
        /\ RecordsOfRun # <<>> =>
              /\ metrics.predictions = RecordsOfRun
              /\ IsNumber(metrics.mae)
              /\ IsNumber(metrics.rmse)
              /\ IF \A i \in 1..Len(RecordsOfRun) : RecordsOfRun[i].actual = 0
                 THEN metrics.avg_error_percent = None
                 ELSE IsNumber(metrics.avg_error_percent)

C17_Witness ==
    /\ ReturnedMetrics
    /\ backtest.fault = 0
    /\ Len(metrics.predictions) >= 2
    /\ \A i \in 1..Len(metrics.predictions) : metrics.predictions[i].actual = 0
    /\ metrics.avg_error_percent = None
    /\ RLt(RInt(0), metrics.mae)

\* the day of the loop that raised: it had the rows to be evaluated
FailedDay ==
    /\ Evaluated
    /\ analyzer.hourly_rates # None
    /\ backtest.fault > 0
    /\ Len(RowsBefore(analyzer.df,
                      MaxDate(analyzer.df) - backtest.days_back + backtest.fault)) >= MinRows

----------------------------------------------------------------------------
(* Properties of a forecast for a later date (specification Spec).         *)

LaterTarget == Accepted /\ request.target_date > MaxDate(analyzer.df)

\* mean count of the dates of weekday w in the log, or the overall daily
\* mean when the log has no event on that weekday
PerWeekdayRate(df, w) ==
    IF EventsOnWeekday(df, w) = {} THEN OverallDailyMean(df)
    ELSE Rat(Cardinality(EventsOnWeekday(df, w)), Cardinality(DatesOnWeekday(df, w)))

\* events of the log on weekday w in hour h, per date of that weekday
JointRateOfLog(df, w, h) ==
    IF EventsOnWeekday(df, w) = {} THEN RInt(0)
    ELSE Rat(Cardinality({k \in EventsOnWeekday(df, w) : df[k].hour = h}),
             Cardinality(DatesOnWeekday(df, w)))

\* the forecast of the same request for the date of the last event
RestOfLastDay ==
    predict_daily(analyzer, MaxDate(analyzer.df), request.use_trend,
                  request.hours).total_expected_tweets

\* the filter in force: None without a filter or with a filter whose
\* entries are all invalid
FilterInForce ==
    IF request.hours = None THEN None
    ELSE IF ValidEntries(request.hours) = <<>> /\ request.hours.items # <<>> THEN None
    ELSE List(ValidEntries(request.hours))

\* the sum of the breakdown values over the dates first..last
RECURSIVE BreakdownSum(_, _, _)
BreakdownSum(breakdown, first, last) ==
    IF last < first THEN RInt(0)
    ELSE RAdd(BreakdownSum(breakdown, first, last - 1), breakdown[last])

BreakdownCoversDates ==
    /\ DOMAIN prediction.daily_breakdown
           = MaxDate(analyzer.df)..request.target_date
    /\ prediction.daily_breakdown[MaxDate(analyzer.df)] = RestOfLastDay
    /\ prediction.total_expected_tweets
           = BreakdownSum(prediction.daily_breakdown, MaxDate(analyzer.df),
                          request.target_date)

\* C21: for a target after the last event's date the breakdown holds one
\* entry for the last event's date (the rest of that day) and one for each
\* later date up to the target, each later entry being the per-weekday rate
\* of its date times the trend factor, and the entries sum to the total.
C21_LaterDaysAtWeekdayRate ==
    LaterTarget =>
        /\ BreakdownCoversDates
        /\ \A d \in (MaxDate(analyzer.df) + 1)..request.target_date :
              prediction.daily_breakdown[d]
                  = RMul(PerWeekdayRate(analyzer.df, Weekday(d)),
                         ExpectedTrendFactor(analyzer.df, request.use_trend))

\* C21, with the filter taken into account: as above when no filter is in
\* force; with a filter in force each later entry is the sum, over the
\* entries of the filter, of the joint rate of the date's weekday and the
\* entry's hour, times the trend factor.
C21_LaterDaysByFilter ==
    LaterTarget =>
        /\ BreakdownCoversDates
        /\ \A d \in (MaxDate(analyzer.df) + 1)..request.target_date :
              prediction.daily_breakdown[d]
                  = RMul(IF FilterInForce = None
                         THEN PerWeekdayRate(analyzer.df, Weekday(d))
                         ELSE RSumSeq([i \in 1..Len(FilterInForce.items) |->
                                          JointRateOfLog(analyzer.df, Weekday(d),
                                                         FilterInForce.items[i])]),
                         ExpectedTrendFactor(analyzer.df, request.use_trend))

C21_Witness ==
    /\ LaterTarget
    /\ request.target_date = MaxDate(analyzer.df) + 2
    /\ FilterInForce = List(<<10>>)
    /\ request.use_trend
    /\ ExpectedTrendFactor(analyzer.df, TRUE) # RInt(1)
    /\ RLt(RInt(0), RestOfLastDay)
    /\ RLt(RInt(0), prediction.daily_breakdown[request.target_date])
    /\ RLt(RestOfLastDay, prediction.total_expected_tweets)

----------------------------------------------------------------------------
(* Properties of the hours filter as a set (specification Spec).           *)

\* the filter listing each valid hour of the request once, ascending
DistinctHours ==
    LET ascending == SortedSeq({ValidEntries(request.hours)[i] :
                                   i \in 1..Len(ValidEntries(request.hours))})
    IN  List([i \in 1..Len(ascending) |-> IntEntry(ascending[i])])

\* the filter with the entries of the request in reverse order
ReversedHours ==
    List([i \in 1..Len(request.hours.items) |->
            request.hours.items[Len(request.hours.items) + 1 - i]])

SameForecast(p, q) ==
    /\ p.total_expected_tweets = q.total_expected_tweets
    /\ p.daily_breakdown = q.daily_breakdown

\* C27: a filter with valid hours gives the total and the breakdown of the
\* filter that lists the same hours once each, and of the filter that lists
\* its entries in another order.
C27_FilterIsASet ==
    Accepted /\ request.hours # None /\ ValidEntries(request.hours) # <<>> =>
        /\ SameForecast(prediction,
                        predict_daily(analyzer, request.target_date, request.use_trend,
                                      ReversedHours))
        /\ SameForecast(prediction,
                        predict_daily(analyzer, request.target_date, request.use_trend,
                                      DistinctHours))

\* the forecast with all 24 hours listed once
AllHours == List([i \in 1..24 |-> IntEntry(i - 1)])

\* C28: the forecast without a filter has the total and the breakdown of
\* the forecast of the same request with every hour 0..23 listed once.
C28_AllHoursIsNoFilter ==
    Accepted /\ request.hours = None =>
        SameForecast(prediction,
                     predict_daily(analyzer, request.target_date, request.use_trend,
                                   AllHours))

----------------------------------------------------------------------------
(* Properties of the days of the backtest (specification SpecEval).        *)

\* a run on an analyzed log in which no day raises
CleanRun == Evaluated /\ analyzer.hourly_rates # None /\ ~IsRaised(metrics)

StartDate == MaxDate(analyzer.df) - backtest.days_back

\* the events of the log dated strictly before d
EventsBefore(d) ==
    LET Earlier(row) == row.date < d
    IN  SelectSeq(analyzer.df, Earlier)

\* the forecast for d made from the events before d alone
ForecastFromPast(d) ==
    predict_daily(AnalyzePatterns(AnalyzerInit(EventsBefore(d))), d, TRUE, None)

RecordDates == {RecordsOfRun[i].date : i \in 1..Len(RecordsOfRun)}

\* C22: the record of day d holds the forecast made from the events dated
\* before d alone, and a day with fewer than 100 such events has no record;
\* nothing is raised.
C22_NoLookAhead ==
    CleanRun =>
        /\ metrics = None <=> RecordDates = {}
        /\ metrics # None => metrics.predictions = RecordsOfRun
        /\ \A i \in 1..Len(RecordsOfRun) :
              /\ Len(EventsBefore(RecordsOfRun[i].date)) >= MinRows
              /\ RecordsOfRun[i].predicted
                    = Fl(ForecastFromPast(RecordsOfRun[i].date).total_expected_tweets)
        /\ \A days \in 1..(backtest.days_back - 1) :
              Len(EventsBefore(StartDate + days)) < MinRows =>
                  StartDate + days \notin RecordDates

C22_Witness ==
    /\ CleanRun
    /\ metrics # None
    /\ backtest.days_back = 4
    /\ Len(metrics.predictions) = 2
    /\ Len(EventsBefore(StartDate + 1)) = MinRows - 1
    /\ \E i \in 1..Len(metrics.predictions) :
          /\ metrics.predictions[i].actual > 0
          /\ metrics.predictions[i].date < MaxDate(analyzer.df) - 1

\* the expected count of date d alone, from the events before d
OneDayForecast(d) ==
    RMul(PerWeekdayRate(EventsBefore(d), Weekday(d)),
         ExpectedTrendFactor(EventsBefore(d), TRUE))

\* C23: the predicted count of the record of day d is the expected count
\* of date d alone.
C23_OneDayHorizon ==
    CleanRun =>
        \A i \in 1..Len(RecordsOfRun) :
            RecordsOfRun[i].predicted = Fl(OneDayForecast(RecordsOfRun[i].date))

\* every day of the trailing window has the rows to be evaluated
EnoughHistory ==
    \A d \in (MaxDate(analyzer.df) - backtest.days_back + 1)..MaxDate(analyzer.df) :
        Len(EventsBefore(d)) >= MinRows

\* C24: with enough history the run returns days_back records, in
\* ascending date order, the last of them for the last date of the log.
C24_WindowOfDaysBack ==
    CleanRun /\ EnoughHistory =>
        /\ metrics # None
        /\ Len(metrics.predictions) = backtest.days_back
        /\ metrics.predictions[Len(metrics.predictions)].date = MaxDate(analyzer.df)
        /\ \A i \in 1..(Len(metrics.predictions) - 1) :
              metrics.predictions[i].date < metrics.predictions[i + 1].date

----------------------------------------------------------------------------
(* predict_next_hours (predictor/hourly_predictor.py).                     *)

\* current_datetime + timedelta(hours=k)
PlusHours(dt, k) ==
    [dt EXCEPT !.date = dt.date + ((dt.hour + k) \div 24), !.hour = (dt.hour + k) % 24]

\* int(x) for x >= 0
IntPart(x) == x.n \div x.d

\* every hour of the loop taken whole
PortionWhole(hours_counted, hours_ahead) == RInt(1)

\* lines 89-93: the last hour is cut at hours_ahead
Portion(hours_counted, hours_ahead) ==
    IF RLt(RInt(hours_ahead), RAdd(hours_counted, RInt(1)))
    THEN RSub(RInt(hours_ahead), hours_counted)
    ELSE RInt(1)

\* lines 106-113
HourEntry(a, next_datetime, portion, trend_factor) ==
    [datetime |-> [next_datetime EXCEPT !.second = 0],
     hour |-> next_datetime.hour,
     weekday |-> Weekday(next_datetime.date),
     expected_tweets |->
         RMul(RMul(JointRate(a, Weekday(next_datetime.date), next_datetime.hour),
                   portion),
              trend_factor),
     partial |-> RLt(portion, RInt(1)),
     portion |-> portion]

\* lines 82-119: the entries appended by "while hours_counted < hours_ahead"
RECURSIVE FullHourEntries(_, _, _, _, _)
FullHourEntries(a, current_datetime, hours_counted, hours_ahead, trend_factor) ==
    IF ~RLt(hours_counted, RInt(hours_ahead)) THEN <<>>
    ELSE
        LET next_datetime == PlusHours(current_datetime, IntPart(hours_counted) + 1)
            portion == Portion(hours_counted, hours_ahead)
        IN  <<HourEntry(a, next_datetime, portion, trend_factor)>>
            \o FullHourEntries(a, current_datetime, RAdd(hours_counted, portion),
                               hours_ahead, trend_factor)

predict_next_hours_result(a, hours_ahead, use_trend) ==
    IF a.hourly_rates = None THEN None
    ELSE
        LET current_datetime == [MaxCreatedAt(a.df) EXCEPT !.date = MaxDate(a.df)]
            trend_factor == calculate_trend_factor(a, use_trend)
            remaining_portion == RemainingPortion(current_datetime)
            first ==
                [datetime |-> current_datetime,
                 hour |-> current_datetime.hour,
                 weekday |-> Weekday(current_datetime.date),
                 expected_tweets |->
                     RMul(RMul(JointRate(a, Weekday(current_datetime.date),
                                         current_datetime.hour),
                               remaining_portion),
                          trend_factor),
                 partial |-> TRUE,
                 portion |-> remaining_portion]
            hour_by_hour ==
                <<first>> \o FullHourEntries(a, current_datetime, remaining_portion,
                                             hours_ahead, trend_factor)
        IN  [from_datetime |-> current_datetime,
             to_datetime |-> PlusHours(current_datetime, hours_ahead),
             hours |-> hours_ahead,
             total_expected_tweets |->
                 RSumSeq([i \in 1..Len(hour_by_hour) |-> hour_by_hour[i].expected_tweets]),
             hour_by_hour |-> hour_by_hour]

\* largest hours_ahead
MaxHoursAhead == 15

\* the logs with one day of history
HourLogs == { LogOf(1, tail) : tail \in [1..MaxTail -> DayProfiles] }

InitHours ==
    /\ pc = "constructed"
    /\ \E df \in HourLogs : analyzer = AnalyzerInit(df)
    /\ request = None
    /\ prediction = None
    /\ Idle

predict_next_hours ==
    /\ pc \in {"constructed", "analyzed"}
    /\ \E hours_ahead \in 1..MaxHoursAhead, use_trend \in BOOLEAN :
          /\ request' = [hours_ahead |-> hours_ahead, use_trend |-> use_trend]
          /\ prediction' = predict_next_hours_result(analyzer, hours_ahead, use_trend)
    /\ pc' = "hours_predicted"
    /\ UNCHANGED <<csv, loader, timestamp_str, parsed, coerced, analyzer, marketVars,
                   backtestVars, collectorVars>>

NextHours == analyze_patterns \/ predict_next_hours

SpecHours == InitHours /\ [][NextHours]_vars

----------------------------------------------------------------------------
(* Properties of the hour-by-hour forecast (specification SpecHours).      *)

HoursPredicted == pc = "hours_predicted" /\ prediction # None

\* C25: the k-th entry of the breakdown (k = 0, 1, ...) is for clock hour
\* (H0 + k) mod 24, H0 being the hour of the last event.
C25_ContiguousHours ==
    HoursPredicted =>
        \A k \in 0..(Len(prediction.hour_by_hour) - 1) :
            prediction.hour_by_hour[k + 1].hour
                = (prediction.from_datetime.hour + k) % 24

\* C29: the call returns, every portion of its breakdown is in (0, 1], and
\* the portions sum to hours_ahead.
C29_PortionsSumToHoursAhead ==
    pc = "hours_predicted" /\ analyzer.hourly_rates # None =>
        /\ prediction # None
        /\ \A i \in 1..Len(prediction.hour_by_hour) :
              /\ RLt(RInt(0), prediction.hour_by_hour[i].portion)
              /\ RLeq(prediction.hour_by_hour[i].portion, RInt(1))
        /\ RSumSeq([i \in 1..Len(prediction.hour_by_hour) |->
                       prediction.hour_by_hour[i].portion])
               = RInt(request.hours_ahead)

C29_Witness ==
    /\ HoursPredicted
    /\ request.hours_ahead = MaxHoursAhead
    /\ prediction.from_datetime.minute = 30
    /\ Len(prediction.hour_by_hour) = MaxHoursAhead + 1
    /\ prediction.hour_by_hour[1].portion = Rat(89, 180)
    /\ prediction.hour_by_hour[MaxHoursAhead + 1].portion = Rat(91, 180)
    /\ prediction.hour_by_hour[MaxHoursAhead + 1].hour = 5

----------------------------------------------------------------------------
(* The collector (src/tweet_collector): TweetScheduler.run fetches a       *)
(* batch, TestTweetScraper.process_tweets picks the new tweets and         *)
(* TweetAppender.append_tweets writes them to the file.                    *)

\* identifiers 1..MaxTweetId
MaxTweetId == 3

\* longest fetched batch
MaxBatch == 3

\* passes of the scheduler loop
MaxChecks == 3

\* an item of a fetched batch that is a tweet; created_at is given by the
\* identifier, so that the order of time is not the order of identifiers
Tweet(id) == [id |-> id, created_at |-> (id * 2) % (MaxTweetId + 1)]

\* an item that is not a dict: tweet.get raises AttributeError
Malformed == [id |-> 0, created_at |-> 0]

BatchItems == {Tweet(id) : id \in 1..MaxTweetId} \cup {Malformed}

\* what fetch_tweets can return; <<>> also stands for every failed fetch
Batches == UNION {[1..n -> BatchItems] : n \in 0..MaxBatch}

\* the set of seen identifiers left as it is
SeenUnchanged(seen_tweets, tweet_id) == seen_tweets

\* line 92: self.seen_tweets.add(tweet_id)
SeenAdd(seen_tweets, tweet_id) == seen_tweets \cup {tweet_id}

\* lines 66-98: the loop over the batch from item i on, with the new tweets
\* found so far; an item that raises ends the call
RECURSIVE ProcessFrom(_, _, _, _)
ProcessFrom(tweets, i, seen_tweets, found) ==
    IF i > Len(tweets)
    THEN [seen_tweets |-> seen_tweets, ret |-> List(found)]
    ELSE IF tweets[i] = Malformed
    THEN [seen_tweets |-> seen_tweets, ret |-> Raised("AttributeError")]
    ELSE IF tweets[i].id \in seen_tweets
    THEN ProcessFrom(tweets, i + 1, seen_tweets, found)
    ELSE ProcessFrom(tweets, i + 1, SeenAdd(seen_tweets, tweets[i].id),
                     Append(found, tweets[i]))

process_tweets(seen_tweets, tweets) == ProcessFrom(tweets, 1, seen_tweets, <<>>)

\* sorted(tweets, key=lambda x: x['created_at']): stable, ascending
RECURSIVE SortedByCreatedAt(_)
SortedByCreatedAt(tweets) ==
    IF tweets = <<>> THEN <<>>
    ELSE LET least == SetMin({tweets[i].created_at : i \in 1..Len(tweets)})
             IsLeast(t) == t.created_at = least
             NotLeast(t) == t.created_at # least
         IN  SelectSeq(tweets, IsLeast) \o SortedByCreatedAt(SelectSeq(tweets, NotLeast))

\* append_tweets: one line per tweet, in the order of created_at
append_tweets(lines, tweets) ==
    IF tweets = <<>> THEN lines ELSE lines \o SortedByCreatedAt(tweets)

InitCollector ==
    /\ pc = "collecting"
    /\ scraper = [seen_tweets |-> {}]
    /\ new_tweets = <<>>
    /\ appended = <<>>
    /\ checks = 0
    /\ csv = <<>>
    /\ loader = LoaderInit
    /\ timestamp_str = <<>>
    /\ parsed = None
    /\ coerced = None
    /\ analyzer = AnalyzerInit(<<>>)
    /\ request = None
    /\ prediction = None
    /\ IdleMarket
    /\ IdleBacktest

\* one pass of the loop of TweetScheduler.run: an exception of
\* process_tweets is caught at line 54 and nothing is appended
run ==
    /\ pc = "collecting"
    /\ checks < MaxChecks
    /\ \E tweets \in Batches :
          LET processed == process_tweets(scraper.seen_tweets, tweets)
              found == IF IsRaised(processed.ret) THEN <<>> ELSE processed.ret.items
          IN  /\ scraper' = [seen_tweets |-> processed.seen_tweets]
              /\ new_tweets' = found
              /\ appended' = append_tweets(appended, found)
    /\ checks' = checks + 1
    /\ UNCHANGED <<pc, csv, loader, timestamp_str, parsed, coerced, analyzer, request,
                   prediction, marketVars, backtestVars>>

NextCollector == run

SpecCollector == InitCollector /\ [][NextCollector]_vars

----------------------------------------------------------------------------
(* Properties of the collector (specification SpecCollector).              *)

IdsOf(tweets) == [i \in 1..Len(tweets) |-> tweets[i].id]

NoRepeat(ids) == \A i, j \in 1..Len(ids) : ids[i] = ids[j] => i = j

\* C30: no identifier is returned as new twice, within one call or over
\* several: the tweets a call returns are distinct, and the file, which
\* receives every returned tweet, holds every identifier at most once.
C30_ReturnedAtMostOnce ==
    /\ NoRepeat(IdsOf(new_tweets))
    /\ NoRepeat(IdsOf(appended))
    /\ Range(IdsOf(appended)) \subseteq scraper.seen_tweets

C30_Witness ==
    /\ checks = 3
    /\ Len(appended) = 2
    /\ Len(new_tweets) = 1
    /\ appended[2] = new_tweets[1]
    /\ Cardinality(scraper.seen_tweets) = 3

====
